---- MODULE Spec2Model ----
(***************************************************************************)
(* fumadocs-mermaid: the remark rewriter (parseCodeBlockAttributes, toMDX, *)
(* remarkMdxMermaid) and the client component (buildMermaidConfig,         *)
(* cachePromise, Mermaid, MermaidContent).                                 *)
(*                                                                         *)
(* Strings are sequences of one-character strings, so that the regular     *)
(* expression, trim, JSON.stringify, JSON.parse and the cache key's        *)
(* template literal are computed character by character.                   *)
(***************************************************************************)
EXTENDS Integers, Sequences, FiniteSets, TLC

VARIABLES
    meta,        \* parseCodeBlockAttributes: the meta string passed in
    parseOut,    \* its return value {rest, attributes}, or NotRun
    cfgIn,       \* the props and the ambient theme a config is resolved from
    cfgOut,      \* what the resolution returned, or that it threw; or NotRun
    doc,         \* the document tree as it was handed to the transformer
    tree,        \* the tree, mutated in place by the transformer
    options,     \* the options remarkMdxMermaid was called with
    passes,      \* how many times the transformer has run on the tree
    instances,   \* the Mermaid components of the page, each with its props
    ambient,     \* useTheme().resolvedTheme, the ambient colour mode
    cache,       \* the module's Map: key -> promise
    promises,    \* the promises setPromise callbacks have started, in order
    mounts,      \* how many components have been put on the page so far
    copy,        \* which copy of MermaidContent the page uses
    refs,        \* per component: its container, its committed ref, the bind calls
    keyIn,       \* two requests: (chart, resolved theme, config string) each
    keyOut       \* the cache keys built for them, or NotRun

parseVars == <<meta, parseOut>>
cfgVars == <<cfgIn, cfgOut>>
remarkVars == <<doc, tree, options, passes>>

uiVars == <<instances, ambient, cache, promises, mounts>>

bindVars == <<copy, refs>>
keyVars == <<keyIn, keyOut>>

vars == <<parseVars, cfgVars, remarkVars, uiVars, bindVars, keyVars>>

NotRun == [k |-> "notrun"]

\* the part of the state a specification does not use stays as it is here
ParseIdle == meta = <<>> /\ parseOut = NotRun
ConfigIdle == cfgIn = NotRun /\ cfgOut = NotRun
RemarkIdle == doc = NotRun /\ tree = NotRun /\ options = NotRun /\ passes = 0
UiIdle ==
    /\ instances = NotRun /\ ambient = NotRun
    /\ cache = NotRun /\ promises = NotRun /\ mounts = 0
BindIdle == copy = NotRun /\ refs = NotRun
KeyIdle == keyIn = NotRun /\ keyOut = NotRun

-----------------------------------------------------------------------------
(* Characters and strings                                                  *)

DQ == "\""
SQ == "'"
SP == " "
BS == "\\"

WordChars == {"a", "b", "c", "d", "e", "f", "g", "h", "i", "j", "k", "l", "m",
              "n", "o", "p", "q", "r", "s", "t", "u", "v", "w", "x", "y", "z",
              "A", "B", "C", "D", "E", "F", "G", "H", "I", "J", "K", "L", "M",
              "N", "O", "P", "Q", "R", "S", "T", "U", "V", "W", "X", "Y", "Z",
              "0", "1", "2", "3", "4", "5", "6", "7", "8", "9", "_"}

SpaceChars == {" ", "\t", "\n", "\r"}

IsWord(c) == c \in WordChars
IsSpace(c) == c \in SpaceChars

\* String.prototype.trim
RECURSIVE TrimLeft(_)
TrimLeft(s) ==
    IF s # <<>> /\ IsSpace(Head(s)) THEN TrimLeft(Tail(s)) ELSE s

RECURSIVE TrimRight(_)
TrimRight(s) ==
    IF s # <<>> /\ IsSpace(s[Len(s)]) THEN TrimRight(SubSeq(s, 1, Len(s) - 1)) ELSE s

Trim(s) == TrimRight(TrimLeft(s))

-----------------------------------------------------------------------------
(* JavaScript values.  An object is the sequence of its own enumerable      *)
(* <<key, value>> entries in insertion order, keys unique.                  *)

JUndef == [k |-> "undef"]
JNull == [k |-> "null"]
JNaN == [k |-> "nan"]
JStr(s) == [k |-> "str", s |-> s]
JNum(n) == [k |-> "num", n |-> n]
JBool(b) == [k |-> "bool", b |-> b]
JArr(a) == [k |-> "arr", a |-> a]
JObj(o) == [k |-> "obj", o |-> o]

ObjKeys(o) == {o[i][1] : i \in 1..Len(o)}

ObjHas(o, key) == key \in ObjKeys(o)

\* o[key]: undefined when there is no such entry
ObjGet(o, key) ==
    IF ObjHas(o, key)
    THEN o[CHOOSE i \in 1..Len(o) : o[i][1] = key][2]
    ELSE JUndef

\* o[key] = v: an existing entry keeps its place, a new one is appended
ObjSet(o, key, v) ==
    IF ObjHas(o, key)
    THEN [i \in 1..Len(o) |-> IF o[i][1] = key THEN <<key, v>> ELSE o[i]]
    ELSE Append(o, <<key, v>>)

\* the entries of an object as a mapping, insertion order forgotten
ObjMap(o) == [key \in ObjKeys(o) |-> ObjGet(o, key)]

-----------------------------------------------------------------------------
(* Number and string conversions of the language                            *)

Digits == <<"0", "1", "2", "3", "4", "5", "6", "7", "8", "9">>

IsDigit(c) == \E d \in 1..10 : Digits[d] = c

DigitVal(c) == (CHOOSE d \in 1..10 : Digits[d] = c) - 1

\* the decimal digits of a natural number
RECURSIVE NatToString(_)
NatToString(n) ==
    IF n < 10 THEN <<Digits[n + 1]>>
    ELSE NatToString(n \div 10) \o <<Digits[(n % 10) + 1]>>

IntToString(n) == IF n < 0 THEN <<"-">> \o NatToString(0 - n) ELSE NatToString(n)

\* the position after the run of digits from p, and the run's value given the
\* value acc of the digits before p
RECURSIVE DigitRun(_, _, _)
DigitRun(s, p, acc) ==
    IF p <= Len(s) /\ IsDigit(s[p])
    THEN DigitRun(s, p + 1, acc * 10 + DigitVal(s[p]))
    ELSE [n |-> acc, next |-> p]

\* truthiness, as tested by  if (x)  and  !x
Truthy(v) ==
    CASE v.k = "undef" -> FALSE
      [] v.k = "null" -> FALSE
      [] v.k = "nan" -> FALSE
      [] v.k = "str" -> v.s # <<>>
      [] v.k = "num" -> v.n # 0
      [] v.k = "bool" -> v.b
      [] OTHER -> TRUE

\* JSToString of a value (what JSON.parse and parseInt do to a non-string
\* argument); an array is its elements joined by commas
RECURSIVE JSToString(_)
RECURSIVE JoinComma(_, _)
JSToString(v) ==
    CASE v.k = "undef" -> <<"u", "n", "d", "e", "f", "i", "n", "e", "d">>
      [] v.k = "null" -> <<"n", "u", "l", "l">>
      [] v.k = "nan" -> <<"N", "a", "N">>
      [] v.k = "str" -> v.s
      [] v.k = "num" -> IntToString(v.n)
      [] v.k = "bool" -> IF v.b THEN <<"t", "r", "u", "e">> ELSE <<"f", "a", "l", "s", "e">>
      [] v.k = "arr" -> JoinComma(v.a, 1)
      [] OTHER -> <<"[", "o", "b", "j", "e", "c", "t", " ", "O", "b", "j", "e", "c", "t", "]">>

JoinComma(a, i) ==
    IF i > Len(a) THEN <<>>
    ELSE (IF a[i].k \in {"undef", "null"} THEN <<>> ELSE JSToString(a[i]))
         \o (IF i < Len(a) THEN <<",">> ELSE <<>>)
         \o JoinComma(a, i + 1)

\* parseInt(x, 10): leading whitespace, an optional sign, then the longest run
\* of digits; NaN when there is no digit
parseInt(x) ==
    LET s == TrimLeft(JSToString(x))
        neg == s # <<>> /\ s[1] = "-"
        p == IF s # <<>> /\ s[1] \in {"-", "+"} THEN 2 ELSE 1
        run == DigitRun(s, p, 0)
    IN IF run.next = p THEN JNaN
       ELSE JNum(IF neg THEN 0 - run.n ELSE run.n)

\* {...v}: the own enumerable properties of v; a string or an array spreads
\* to its indexed elements, any other primitive to nothing
Spread(v) ==
    CASE v.k = "obj" -> v.o
      [] v.k = "str" -> [i \in 1..Len(v.s) |-> <<NatToString(i - 1), JStr(<<v.s[i]>>)>>]
      [] v.k = "arr" -> [i \in 1..Len(v.a) |-> <<NatToString(i - 1), v.a[i]>>]
      [] OTHER -> <<>>

-----------------------------------------------------------------------------
(* JSON.stringify                                                          *)

\* a string's characters with quotes, backslashes and control characters
\* escaped
EscapeChar(c) ==
    CASE c = DQ -> <<BS, DQ>>
      [] c = BS -> <<BS, BS>>
      [] c = "\n" -> <<BS, "n">>
      [] c = "\t" -> <<BS, "t">>
      [] c = "\r" -> <<BS, "r">>
      [] OTHER -> <<c>>

RECURSIVE Escape(_)
Escape(s) ==
    IF s = <<>> THEN <<>>
    ELSE IF Len(s) = 1 THEN EscapeChar(s[1])
    ELSE LET mid == Len(s) \div 2
         IN Escape(SubSeq(s, 1, mid)) \o Escape(SubSeq(s, mid + 1, Len(s)))

Quote(s) == <<DQ>> \o Escape(s) \o <<DQ>>

RECURSIVE JSONstringify(_)
RECURSIVE StringifyEntries(_, _, _)
RECURSIVE StringifyElements(_, _)
JSONstringify(v) ==
    CASE v.k = "null" -> <<"n", "u", "l", "l">>
      [] v.k = "nan" -> <<"n", "u", "l", "l">>
      [] v.k = "str" -> Quote(v.s)
      [] v.k = "num" -> IntToString(v.n)
      [] v.k = "bool" -> IF v.b THEN <<"t", "r", "u", "e">> ELSE <<"f", "a", "l", "s", "e">>
      [] v.k = "arr" -> <<"[">> \o StringifyElements(v.a, 1) \o <<"]">>
      [] v.k = "obj" -> <<"{">> \o StringifyEntries(v.o, 1, TRUE) \o <<"}">>

\* the entries of an object from the i-th on; an entry whose value is
\* undefined is left out
StringifyEntries(o, i, first) ==
    IF i > Len(o) THEN <<>>
    ELSE IF o[i][2].k = "undef" THEN StringifyEntries(o, i + 1, first)
    ELSE (IF first THEN <<>> ELSE <<",">>)
         \o Quote(o[i][1]) \o <<":">> \o JSONstringify(o[i][2])
         \o StringifyEntries(o, i + 1, FALSE)

StringifyElements(a, i) ==
    IF i > Len(a) THEN <<>>
    ELSE (IF a[i].k = "undef" THEN <<"n", "u", "l", "l">> ELSE JSONstringify(a[i]))
         \o (IF i < Len(a) THEN <<",">> ELSE <<>>)
         \o StringifyElements(a, i + 1)

-----------------------------------------------------------------------------
(* JSON.parse: a recursive-descent reading of the text.  Every reader       *)
(* returns [ok |-> FALSE] (a SyntaxError) or the value read and the        *)
(* position after it.  Numbers are integers; the escapes read are the ones *)
(* Escape writes, and the solidus.                                         *)

Fail == [ok |-> FALSE]

RECURSIVE SkipWs(_, _)
SkipWs(s, p) ==
    IF p <= Len(s) /\ s[p] \in SpaceChars THEN SkipWs(s, p + 1) ELSE p

\* s holds the characters of lit from position p
Literal(s, p, lit) ==
    p + Len(lit) - 1 <= Len(s) /\ SubSeq(s, p, p + Len(lit) - 1) = lit

\* the first of the run of backslashes that ends right before position i,
\* in a string body that starts at p (i itself when there is no such run)
BsRunStart(s, p, i) ==
    IF i = p \/ s[i - 1] # BS THEN i
    ELSE CHOOSE j \in p..(i - 1) :
             /\ \A m \in j..(i - 1) : s[m] = BS
             /\ (j = p \/ s[j - 1] # BS)

\* the character at i is the second character of an escape
Escaped(s, p, i) == (i - BsRunStart(s, p, i)) % 2 = 1

\* position c holds a quote that is not escaped
ClosesAt(s, p, c) == s[c] = DQ /\ ~Escaped(s, p, c)

\* the closing quote of the string body that starts at p: the first quote
\* that is not escaped; 0 when there is none
StrClose(s, p) ==
    IF \E c \in p..Len(s) : ClosesAt(s, p, c)
    THEN CHOOSE c \in p..Len(s) :
             ClosesAt(s, p, c) /\ \A d \in p..(c - 1) : ~ClosesAt(s, p, d)
    ELSE 0

\* the characters denoted by positions lo..hi of a string body that starts
\* at p: a backslash that opens an escape denotes nothing by itself
RECURSIVE Unescape(_, _, _, _)
Unescape(s, p, lo, hi) ==
    IF lo > hi THEN <<>>
    ELSE IF lo = hi
    THEN IF Escaped(s, p, lo)
         THEN CASE s[lo] = "n" -> <<"\n">>
                [] s[lo] = "t" -> <<"\t">>
                [] s[lo] = "r" -> <<"\r">>
                [] OTHER -> <<s[lo]>>
         ELSE IF s[lo] = BS THEN <<>> ELSE <<s[lo]>>
    ELSE LET mid == (lo + hi) \div 2
         IN Unescape(s, p, lo, mid) \o Unescape(s, p, mid + 1, hi)

\* a string from position p (after the opening quote): a SyntaxError when it
\* is not closed, holds a raw control character or an escape that is none
ReadString(s, p) ==
    LET c == StrClose(s, p)
    IN IF c = 0 THEN Fail
       ELSE IF \E i \in p..(c - 1) :
                  \/ s[i] \in {"\n", "\t", "\r"}
                  \/ s[i] \notin {DQ, BS, "/", "n", "t", "r"} /\ Escaped(s, p, i)
       THEN Fail
       ELSE [ok |-> TRUE, v |-> JStr(Unescape(s, p, p, c - 1)), next |-> c + 1]

\* a number from position p: an optional minus, then 0 or a run of digits
\* that does not start with 0
ReadNumber(s, p) ==
    LET neg == p <= Len(s) /\ s[p] = "-"
        q == IF neg THEN p + 1 ELSE p
        run == DigitRun(s, q, 0)
    IN IF run.next = q THEN Fail
       ELSE IF s[q] = "0" /\ run.next > q + 1 THEN Fail
       ELSE [ok |-> TRUE, v |-> JNum(IF neg THEN 0 - run.n ELSE run.n), next |-> run.next]

RECURSIVE ReadValue(_, _)
RECURSIVE ReadMembers(_, _, _)
RECURSIVE ReadElements(_, _, _)
ReadValue(s, p0) ==
    LET p == SkipWs(s, p0)
    IN IF p > Len(s) THEN Fail
       ELSE CASE s[p] = "{" ->
                    LET q == SkipWs(s, p + 1)
                    IN IF q <= Len(s) /\ s[q] = "}"
                       THEN [ok |-> TRUE, v |-> JObj(<<>>), next |-> q + 1]
                       ELSE ReadMembers(s, q, <<>>)
              [] s[p] = "[" ->
                    LET q == SkipWs(s, p + 1)
                    IN IF q <= Len(s) /\ s[q] = "]"
                       THEN [ok |-> TRUE, v |-> JArr(<<>>), next |-> q + 1]
                       ELSE ReadElements(s, q, <<>>)
              [] s[p] = DQ -> ReadString(s, p + 1)
              [] Literal(s, p, <<"n", "u", "l", "l">>) ->
                    [ok |-> TRUE, v |-> JNull, next |-> p + 4]
              [] Literal(s, p, <<"t", "r", "u", "e">>) ->
                    [ok |-> TRUE, v |-> JBool(TRUE), next |-> p + 4]
              [] Literal(s, p, <<"f", "a", "l", "s", "e">>) ->
                    [ok |-> TRUE, v |-> JBool(FALSE), next |-> p + 5]
              [] s[p] = "-" \/ IsDigit(s[p]) -> ReadNumber(s, p)
              [] OTHER -> Fail

\* the members of an object from position p (at a key), o the entries read
\* so far; a repeated key keeps its last value
ReadMembers(s, p, o) ==
    IF p > Len(s) \/ s[p] # DQ THEN Fail
    ELSE LET key == ReadString(s, p + 1)
         IN IF ~key.ok THEN Fail
            ELSE LET c == SkipWs(s, key.next)
                 IN IF c > Len(s) \/ s[c] # ":" THEN Fail
                    ELSE LET val == ReadValue(s, c + 1)
                         IN IF ~val.ok THEN Fail
                            ELSE LET d == SkipWs(s, val.next)
                                     o2 == ObjSet(o, key.v.s, val.v)
                                 IN IF d > Len(s) THEN Fail
                                    ELSE IF s[d] = "}"
                                    THEN [ok |-> TRUE, v |-> JObj(o2), next |-> d + 1]
                                    ELSE IF s[d] = ","
                                    THEN ReadMembers(s, SkipWs(s, d + 1), o2)
                                    ELSE Fail

ReadElements(s, p, a) ==
    LET val == ReadValue(s, p)
    IN IF ~val.ok THEN Fail
       ELSE LET d == SkipWs(s, val.next)
                a2 == Append(a, val.v)
            IN IF d > Len(s) THEN Fail
               ELSE IF s[d] = "]"
               THEN [ok |-> TRUE, v |-> JArr(a2), next |-> d + 1]
               ELSE IF s[d] = ","
               THEN ReadElements(s, d + 1, a2)
               ELSE Fail

\* JSON.parse(text): [ok |-> FALSE] when it throws
JSONparse(text) ==
    LET r == ReadValue(text, 1)
    IN IF r.ok /\ SkipWs(text, r.next) > Len(text)
       THEN [ok |-> TRUE, v |-> r.v]
       ELSE Fail

-----------------------------------------------------------------------------
(* parseCodeBlockAttributes                                                *)
(*   the global regex: lookbehind (start or whitespace), a run of word    *)
(*   characters, optionally = and a double- or single-quoted value;       *)
(*   applied with replaceAll.                                             *)

\* (?<=^|\s) at position p (1-based) of s
LookBehind(s, p) == p = 1 \/ IsSpace(s[p - 1])

\* (\w+), greedy: the position after the longest run of word characters from p
RECURSIVE WordEnd(_, _)
WordEnd(s, p) ==
    IF p <= Len(s) /\ IsWord(s[p]) THEN WordEnd(s, p + 1) ELSE p

\* [^q]*q from position p: the position of the first q at or after p, 0 if none
RECURSIVE QuoteEnd(_, _, _)
QuoteEnd(s, p, q) ==
    IF p > Len(s) THEN 0
    ELSE IF s[p] = q THEN p
    ELSE QuoteEnd(s, p + 1, q)

\* a variant of the group without the single-quoted alternative
ValueGroupDoubleQuoted(s, e) ==
    IF e + 1 <= Len(s) /\ s[e] = "=" /\ s[e + 1] = DQ
       /\ QuoteEnd(s, e + 2, DQ) # 0
    THEN LET c == QuoteEnd(s, e + 2, DQ)
         IN [value |-> JStr(SubSeq(s, e + 2, c - 1)), next |-> c + 1]
    ELSE [value |-> JNull, next |-> e]

\* the optional group (= and a quoted value) at position e: the captured
\* value and the position after the group; the group matches empty when it
\* cannot match
ValueGroup(s, e) ==
    IF e + 1 <= Len(s) /\ s[e] = "=" /\ s[e + 1] \in {DQ, SQ}
       /\ QuoteEnd(s, e + 2, s[e + 1]) # 0
    THEN LET c == QuoteEnd(s, e + 2, s[e + 1])
         IN [value |-> JStr(SubSeq(s, e + 2, c - 1)), next |-> c + 1]
    ELSE [value |-> JNull, next |-> e]

\* replaceAll with the global regex: every match, left to right, sets
\* attributes[name] and is replaced by ''; unmatched characters are kept
RECURSIVE ReplaceAll(_, _, _, _)
ReplaceAll(s, p, attributes, str) ==
    IF p > Len(s) THEN [rest |-> str, attributes |-> attributes]
    ELSE IF LookBehind(s, p) /\ IsWord(s[p])
    THEN LET e == WordEnd(s, p)
             g == ValueGroup(s, e)
         IN ReplaceAll(s, g.next, ObjSet(attributes, SubSeq(s, p, e - 1), g.value), str)
    ELSE ReplaceAll(s, p + 1, attributes, Append(str, s[p]))

parseCodeBlockAttributes(m) ==
    LET r == ReplaceAll(m, 1, <<>>, <<>>)
    IN [rest |-> Trim(r.rest), attributes |-> r.attributes]

-----------------------------------------------------------------------------
(* String literals of the program                                          *)

S_theme == <<"t", "h", "e", "m", "e">>
S_themeCSS == <<"t", "h", "e", "m", "e", "C", "S", "S">>
S_config == <<"c", "o", "n", "f", "i", "g">>
S_chart == <<"c", "h", "a", "r", "t">>
S_packet == <<"p", "a", "c", "k", "e", "t">>
S_flowchart == <<"f", "l", "o", "w", "c", "h", "a", "r", "t">>
S_sequence == <<"s", "e", "q", "u", "e", "n", "c", "e">>
S_rowHeight == <<"r", "o", "w", "H", "e", "i", "g", "h", "t">>
S_bitsPerRow == <<"b", "i", "t", "s", "P", "e", "r", "R", "o", "w">>
S_showBits == <<"s", "h", "o", "w", "B", "i", "t", "s">>
S_nodeSpacing == <<"n", "o", "d", "e", "S", "p", "a", "c", "i", "n", "g">>
S_rankSpacing == <<"r", "a", "n", "k", "S", "p", "a", "c", "i", "n", "g">>
S_curve == <<"c", "u", "r", "v", "e">>
S_mirrorActors == <<"m", "i", "r", "r", "o", "r", "A", "c", "t", "o", "r", "s">>
S_messageAlign == <<"m", "e", "s", "s", "a", "g", "e", "A", "l", "i", "g", "n">>
S_true == <<"t", "r", "u", "e">>
S_dark == <<"d", "a", "r", "k">>
S_default == <<"d", "e", "f", "a", "u", "l", "t">>
S_mermaid == <<"m", "e", "r", "m", "a", "i", "d">>
S_Mermaid == <<"M", "e", "r", "m", "a", "i", "d">>

\* the default value of the themeCSS prop
DefaultThemeCSS ==
    <<"m", "a", "r", "g", "i", "n", ":", " ", "1", ".", "5", "r", "e", "m", " ",
      "a", "u", "t", "o", " ", "0", ";">>

-----------------------------------------------------------------------------
(* buildMermaidConfig                                                      *)

Returned(v) == [threw |-> FALSE, v |-> v]

\* an uncaught TypeError
Threw == [threw |-> TRUE]

\* v.key for one of the names the function reads: undefined on anything but
\* an object that has the entry (reading a property of null throws, which
\* the caller decides before it uses this)
Prop(v, key) == IF v.k = "obj" THEN ObjGet(v.o, key) ELSE JUndef

\* if (cond) o[key] = v
SetIf(o, cond, key, v) == IF cond THEN ObjSet(o, key, v) ELSE o

\* themeOverride ? { theme: themeOverride } : {}
ThemeOnly(themeOverride) ==
    IF Truthy(themeOverride) THEN JObj(<<<<S_theme, themeOverride>>>>) ELSE JObj(<<>>)

\* the nested path: the parsed config field, then the outer theme, then the
\* override
\* a variant of the nested path that applies the override before the outer
\* theme
NestedConfigOuterLast(nestedConfig, parsed, themeOverride) ==
    LET result == Spread(nestedConfig)
        r1 == SetIf(result, Truthy(themeOverride), S_theme, themeOverride)
        r2 == SetIf(r1, Truthy(Prop(parsed, S_theme)), S_theme, Prop(parsed, S_theme))
    IN JObj(r2)

NestedConfig(nestedConfig, parsed, themeOverride) ==
    LET result == Spread(nestedConfig)
        r1 == SetIf(result, Truthy(Prop(parsed, S_theme)), S_theme, Prop(parsed, S_theme))
        r2 == SetIf(r1, Truthy(themeOverride), S_theme, themeOverride)
    IN JObj(r2)

\* the theme of the flat path
FlatTheme(parsed, themeOverride) ==
    IF Truthy(Prop(parsed, S_theme)) THEN <<<<S_theme, Prop(parsed, S_theme)>>>>
    ELSE IF Truthy(themeOverride) THEN <<<<S_theme, themeOverride>>>>
    ELSE <<>>

PacketOptions(parsed) ==
    LET o1 == SetIf(<<>>, Truthy(Prop(parsed, S_rowHeight)),
                    S_rowHeight, parseInt(Prop(parsed, S_rowHeight)))
        o2 == SetIf(o1, Truthy(Prop(parsed, S_bitsPerRow)),
                    S_bitsPerRow, parseInt(Prop(parsed, S_bitsPerRow)))
    IN SetIf(o2, Truthy(Prop(parsed, S_showBits)),
             S_showBits, JBool(Prop(parsed, S_showBits) = JStr(S_true)))

FlowchartOptions(parsed) ==
    LET o1 == SetIf(<<>>, Truthy(Prop(parsed, S_nodeSpacing)),
                    S_nodeSpacing, parseInt(Prop(parsed, S_nodeSpacing)))
        o2 == SetIf(o1, Truthy(Prop(parsed, S_rankSpacing)),
                    S_rankSpacing, parseInt(Prop(parsed, S_rankSpacing)))
    IN SetIf(o2, Truthy(Prop(parsed, S_curve)), S_curve, Prop(parsed, S_curve))

SequenceOptions(parsed) ==
    LET o1 == SetIf(<<>>, Truthy(Prop(parsed, S_mirrorActors)),
                    S_mirrorActors, JBool(Prop(parsed, S_mirrorActors) = JStr(S_true)))
    IN SetIf(o1, Truthy(Prop(parsed, S_messageAlign)),
             S_messageAlign, Prop(parsed, S_messageAlign))

\* a variant of the flat path that attaches every group, empty or not
FlatConfigEveryGroup(parsed, themeOverride) ==
    JObj(FlatTheme(parsed, themeOverride)
         \o <<<<S_packet, JObj(PacketOptions(parsed))>>,
              <<S_flowchart, JObj(FlowchartOptions(parsed))>>,
              <<S_sequence, JObj(SequenceOptions(parsed))>>>>)

\* the flat path: the theme, then each family's group when it has an entry
FlatConfig(parsed, themeOverride) ==
    LET c0 == FlatTheme(parsed, themeOverride)
        c1 == SetIf(c0, Len(PacketOptions(parsed)) > 0, S_packet, JObj(PacketOptions(parsed)))
        c2 == SetIf(c1, Len(FlowchartOptions(parsed)) > 0,
                    S_flowchart, JObj(FlowchartOptions(parsed)))
        c3 == SetIf(c2, Len(SequenceOptions(parsed)) > 0,
                    S_sequence, JObj(SequenceOptions(parsed)))
    IN JObj(c3)

\* after JSON.parse(configStr) has returned parsed: reading parsed.config of
\* null is a TypeError outside any try block
AfterParse(parsed, themeOverride) ==
    IF parsed.k = "null" THEN Threw
    ELSE LET field == Prop(parsed, S_config)
             nested == IF Truthy(field) THEN JSONparse(JSToString(field)) ELSE Fail
         IN IF nested.ok
            THEN Returned(NestedConfig(nested.v, parsed, themeOverride))
            ELSE Returned(FlatConfig(parsed, themeOverride))

\* buildMermaidConfig(configStr, themeOverride); each argument is a string or
\* undefined
buildMermaidConfig(configStr, themeOverride) ==
    IF ~Truthy(configStr) THEN Returned(ThemeOnly(themeOverride))
    ELSE LET p == JSONparse(configStr.s)
         IN IF ~p.ok THEN Returned(ThemeOnly(themeOverride))
            ELSE AfterParse(p.v, themeOverride)

\* MermaidContent: themeOverride ?? (systemTheme === 'dark' ? 'dark' : 'default')
\* a variant of ResolvedTheme that does not follow the ambient theme
ResolvedThemeFixed(themeOverride, systemTheme) ==
    IF themeOverride.k \in {"undef", "null"} THEN JStr(S_default) ELSE themeOverride

ResolvedTheme(themeOverride, systemTheme) ==
    IF themeOverride.k \in {"undef", "null"}
    THEN (IF systemTheme = JStr(S_dark) THEN JStr(S_dark) ELSE JStr(S_default))
    ELSE themeOverride

\* MermaidContent: the per-diagram config, with diagramConfig.themeCSS set
DiagramConfig(configStr, themeOverride, systemTheme, themeCSS) ==
    LET built == buildMermaidConfig(configStr, ResolvedTheme(themeOverride, systemTheme))
    IN IF built.threw THEN Threw
       ELSE Returned(JObj(ObjSet(built.v.o, S_themeCSS, JStr(themeCSS))))

-----------------------------------------------------------------------------
(* Specification of the attribute parser: a meta string is drawn, then      *)
(* parsed.                                                                 *)

MaxMeta == 6

MetaChars == {"a", "b", "=", DQ, SQ, SP}

MetaStrings == UNION {[1..n -> MetaChars] : n \in 0..MaxMeta}

InitParse ==
    /\ meta \in MetaStrings
    /\ parseOut = NotRun
    /\ ConfigIdle
    /\ RemarkIdle
    /\ UiIdle
    /\ BindIdle
    /\ KeyIdle

Parse ==
    /\ parseOut = NotRun
    /\ parseOut' = parseCodeBlockAttributes(meta)
    /\ UNCHANGED <<meta, cfgVars, remarkVars, uiVars, bindVars, keyVars>>

NextParse == Parse

SpecParse == InitParse /\ [][NextParse]_vars

-----------------------------------------------------------------------------
(* Specification of the config resolution: the props and the ambient theme  *)
(* are drawn, then buildMermaidConfig is called with the theme prop as its *)
(* override (BuildConfig), or MermaidContent resolves the theme and builds *)
(* the per-diagram config (ContentConfig).                                 *)

S_forest == <<"f", "o", "r", "e", "s", "t">>
S_neutral == <<"n", "e", "u", "t", "r", "a", "l">>
S_light == <<"l", "i", "g", "h", "t">>

\* serialized nested configs a config attribute may carry
NestedTexts ==
    {JSONstringify(JObj(<<<<S_theme, JStr(S_neutral)>>,
                          <<S_packet, JObj(<<<<S_rowHeight, JNum(7)>>>>)>>>>)),
     JSONstringify(JObj(<<<<S_flowchart, JObj(<<<<S_curve, JStr(<<"l">>)>>>>)>>>>)),
     <<"5">>,
     <<"{", DQ, "t">>}

\* the flat attributes a config string is made of: <<name, value>> entries
AttributePool ==
    <<<<S_theme, JStr(S_forest)>>, <<S_theme, JNull>>, <<S_theme, JStr(<<>>)>>,
      <<S_rowHeight, JStr(<<"4", "0">>)>>, <<S_rowHeight, JNull>>,
      <<S_rowHeight, JStr(<<>>)>>, <<S_rowHeight, JStr(<<"x">>)>>,
      <<S_rowHeight, JNum(40)>>,
      <<S_bitsPerRow, JStr(<<"8">>)>>,
      <<S_showBits, JStr(S_true)>>, <<S_showBits, JStr(<<"n", "o">>)>>,
      <<S_showBits, JNull>>,
      <<S_nodeSpacing, JStr(<<"5">>)>>,
      <<S_rankSpacing, JStr(<<"6", "p", "x">>)>>,
      <<S_curve, JStr(<<"b">>)>>,
      <<S_mirrorActors, JStr(S_true)>>, <<S_mirrorActors, JNull>>,
      <<S_messageAlign, JStr(<<"l">>)>>,
      <<<<"f", "o", "o">>, JStr(<<"1">>)>>,
      <<S_config, JNull>>>>
    \o [i \in 1..Cardinality(NestedTexts) |->
          <<S_config, JStr(CHOOSE t \in NestedTexts :
                             Cardinality({u \in NestedTexts : Len(u) < Len(t)}) = i - 1)>>]

MaxAttrs == 2

\* the objects of at most MaxAttrs entries of the pool, no name twice
PoolObjects ==
    UNION {{[i \in 1..n |-> AttributePool[pick[i]]] :
                pick \in {f \in [1..n -> 1..Len(AttributePool)] :
                             \A i \in 1..(n - 1) :
                                 /\ f[i] < f[i + 1]
                                 /\ \A j \in (i + 1)..n :
                                        AttributePool[f[i]][1] # AttributePool[f[j]][1]}} :
           n \in 0..MaxAttrs}

\* JSON texts of the other value kinds, and texts that are not JSON
OtherTexts ==
    {JSONstringify(JNull), JSONstringify(JNum(5)), JSONstringify(JNum(0)),
     JSONstringify(JBool(TRUE)), JSONstringify(JStr(<<"x">>)),
     JSONstringify(JArr(<<>>)), JSONstringify(JArr(<<JNum(1)>>)),
     <<"{">>, <<"{", DQ, "t", DQ, ":">>, <<"n", "u", "l">>, <<"x">>}

\* the values of the config prop: absent, empty, or a text
ConfigStrings ==
    {JUndef, JStr(<<>>)}
    \cup {JStr(JSONstringify(JObj(o))) : o \in PoolObjects}
    \cup {JStr(t) : t \in OtherTexts}

ThemeProps == {JUndef, JStr(S_dark), JStr(S_forest)}

SystemThemes == {JUndef, JStr(S_dark), JStr(S_light)}

InitConfig ==
    /\ cfgIn \in [configStr : ConfigStrings, themeOverride : ThemeProps,
                  systemTheme : SystemThemes, themeCSS : {DefaultThemeCSS}]
    /\ cfgOut = NotRun
    /\ ParseIdle
    /\ RemarkIdle
    /\ UiIdle
    /\ BindIdle
    /\ KeyIdle

BuildConfig ==
    /\ cfgOut = NotRun
    /\ cfgOut' = [op |-> "build",
                  out |-> buildMermaidConfig(cfgIn.configStr, cfgIn.themeOverride)]
    /\ UNCHANGED <<cfgIn, parseVars, remarkVars, uiVars, bindVars, keyVars>>

ContentConfig ==
    /\ cfgOut = NotRun
    /\ cfgOut' = [op |-> "content",
                  out |-> DiagramConfig(cfgIn.configStr, cfgIn.themeOverride,
                                        cfgIn.systemTheme, cfgIn.themeCSS)]
    /\ UNCHANGED <<cfgIn, parseVars, remarkVars, uiVars, bindVars, keyVars>>

NextConfig == BuildConfig \/ ContentConfig

SpecConfig == InitConfig /\ [][NextConfig]_vars

-----------------------------------------------------------------------------
(* toMDX, remarkMdxMermaid.  A node is a record of its fields; lang and meta *)
(* are a string or null, value and the attribute values are strings.        *)

\* a variant of toMDX that passes the body on untrimmed
toMDXUntrimmed(code, config) ==
    [type |-> "mdxJsxFlowElement",
     name |-> S_Mermaid,
     attributes |->
        <<[type |-> "mdxJsxAttribute", name |-> S_chart, value |-> code]>>
        \o (IF Len(config) > 0
            THEN <<[type |-> "mdxJsxAttribute", name |-> S_config,
                    value |-> JSONstringify(JObj(config))]>>
            ELSE <<>>),
     children |-> <<>>]

toMDX(code, config) ==
    [type |-> "mdxJsxFlowElement",
     name |-> S_Mermaid,
     attributes |->
        <<[type |-> "mdxJsxAttribute", name |-> S_chart, value |-> Trim(code)]>>
        \o (IF Len(config) > 0
            THEN <<[type |-> "mdxJsxAttribute", name |-> S_config,
                    value |-> JSONstringify(JObj(config))]>>
            ELSE <<>>),
     children |-> <<>>]

\* a variant of Object.assign in which the target's own fields win, so
\* that a rewritten node keeps the type code
ObjectAssignTargetWins(target, source) ==
    [f \in DOMAIN target \cup DOMAIN source |->
        IF f \in DOMAIN target THEN target[f] ELSE source[f]]

\* Object.assign(target, source)
ObjectAssign(target, source) ==
    [f \in DOMAIN target \cup DOMAIN source |->
        IF f \in DOMAIN source THEN source[f] ELSE target[f]]

\* const { lang = 'mermaid' } = options
LangOption(opts) == IF opts.lang = JUndef THEN S_mermaid ELSE opts.lang.s

\* a variant of the visitor without the test of the body
VisitorAnyBody(node, lang) ==
    IF node.lang # JStr(lang) THEN node
    ELSE ObjectAssign(node,
             toMDX(node.value,
                   parseCodeBlockAttributes(
                       IF node.meta = JNull THEN <<>> ELSE node.meta.s).attributes))

\* the visitor passed to visit(tree, 'code', ...)
Visitor(node, lang) ==
    IF node.lang # JStr(lang) \/ node.value = <<>> THEN node
    ELSE ObjectAssign(node,
             toMDX(node.value,
                   parseCodeBlockAttributes(
                       IF node.meta = JNull THEN <<>> ELSE node.meta.s).attributes))

\* visit(tree, 'code', visitor): the visitor on every node of type code, in
\* document order, then the children the node has after that
RECURSIVE Visit(_, _)
Visit(node, lang) ==
    LET visited == IF node.type = "code" THEN Visitor(node, lang) ELSE node
    IN IF "children" \in DOMAIN visited
       THEN [visited EXCEPT !.children = [i \in 1..Len(@) |-> Visit(@[i], lang)]]
       ELSE visited

\* the transformer remarkMdxMermaid(options) returns
Transformer(root, opts) == Visit(root, LangOption(opts))

-----------------------------------------------------------------------------
(* Specification of the rewriter: a document tree and the options are       *)
(* drawn, then the transformer runs on the tree, possibly again.           *)

S_js == <<"j", "s">>

MaxChildren == 2
MaxPasses == 2

CodeNodes ==
    [type : {"code"},
     lang : {JStr(S_mermaid), JStr(S_js), JNull},
     meta : {JNull, JStr(<<"t", "=", DQ, "d", DQ, " ", "b">>), JStr(<<"=", DQ, "x">>)},
     value : {<<>>, <<"g">>, <<"\n", "g", " ", "h", " ">>}]

HtmlNodes == [type : {"html"}, value : {<<"g">>}]

LeafNodes == CodeNodes \cup HtmlNodes

\* a container with at most one child
QuoteNodes ==
    {[type |-> "blockquote", children |-> <<>>]}
    \cup {[type |-> "blockquote", children |-> <<n>>] :
             n \in {[type |-> "code", lang |-> JStr(S_mermaid), meta |-> JNull,
                     value |-> <<"g">>],
                    [type |-> "code", lang |-> JStr(S_js), meta |-> JNull,
                     value |-> <<>>],
                    [type |-> "html", value |-> <<"g">>]}}

Nodes == LeafNodes \cup QuoteNodes

Documents ==
    {[type |-> "root", children |-> c] :
        c \in UNION {[1..n -> Nodes] : n \in 0..MaxChildren}}

InitRemark ==
    /\ doc \in Documents
    /\ tree = doc
    /\ options \in [lang : {JUndef, JStr(S_js)}]
    /\ passes = 0
    /\ ParseIdle
    /\ ConfigIdle
    /\ UiIdle
    /\ BindIdle
    /\ KeyIdle

Transform ==
    /\ passes < MaxPasses
    /\ tree' = Transformer(tree, options)
    /\ passes' = passes + 1
    /\ UNCHANGED <<doc, options, parseVars, cfgVars, uiVars, bindVars, keyVars>>

NextRemark == Transform

SpecRemark == InitRemark /\ [][NextRemark]_vars

-----------------------------------------------------------------------------
(* The client component.  Mermaid renders nothing until its mount effect    *)
(* has run; MermaidContent then asks cachePromise for the engine and for   *)
(* the rendered diagram and suspends on each through use().  A promise is  *)
(* its index in promises; the cache maps a key to such an index.           *)

NL == "\n"

S_initOpen == <<"%", "%", "{", "i", "n", "i", "t", ":", " ">>
S_initClose == <<"}", "%", "%", NL>>

\* the key of the engine module in the cache
EngineKey == S_mermaid

\* a string or undefined: the string, '' for undefined or null
OrEmpty(v) == IF v.k \in {"undef", "null"} THEN <<>> ELSE JSToString(v)

\* a variant of the key without the config string
RenderKeyChartTheme(chart, resolvedTheme, configStr) ==
    chart \o <<"-">> \o JSToString(resolvedTheme)

\* the key of a rendered diagram: chart, resolved theme and config string
\* joined by dashes
RenderKey(chart, resolvedTheme, configStr) ==
    chart \o <<"-">> \o JSToString(resolvedTheme) \o <<"-">> \o OrEmpty(configStr)

\* chart.replaceAll of backslash n by a line break
RECURSIVE ReplaceEscapedBreaks(_)
ReplaceEscapedBreaks(s) ==
    IF s = <<>> THEN <<>>
    ELSE IF Len(s) >= 2 /\ s[1] = BS /\ s[2] = "n"
         THEN <<NL>> \o ReplaceEscapedBreaks(SubSeq(s, 3, Len(s)))
         ELSE <<s[1]>> \o ReplaceEscapedBreaks(SubSeq(s, 2, Len(s)))

\* initDirective + chart
FullChart(diagramConfig, chart) ==
    S_initOpen \o JSONstringify(diagramConfig) \o S_initClose
        \o ReplaceEscapedBreaks(chart)

\* the promise a setPromise callback returns: import('mermaid') or
\* mermaid.render(id, fullChart), started for a key and not yet settled
Started(key, call, id, fullChart) ==
    [key |-> key, call |-> call, id |-> id, fullChart |-> fullChart,
     state |-> "pending"]

EmptyCache == [key \in {} |-> 0]

\* a variant of cachePromise that never reads the cache
cachePromiseUnread(c, ps, key, setPromise) ==
    LET promise == Len(ps) + 1
    IN [promise |-> promise,
        cache |-> [k \in DOMAIN c \cup {key} |-> IF k = key THEN promise ELSE c[k]],
        promises |-> Append(ps, setPromise)]

\* a variant of cachePromise that starts again when the cached promise has
\* been rejected
cachePromiseRetry(c, ps, key, setPromise) ==
    IF key \in DOMAIN c /\ ps[c[key]].state # "rejected"
    THEN [promise |-> c[key], cache |-> c, promises |-> ps]
    ELSE LET promise == Len(ps) + 1
         IN [promise |-> promise,
             cache |-> [k \in DOMAIN c \cup {key} |-> IF k = key THEN promise ELSE c[k]],
             promises |-> Append(ps, setPromise)]

\* cachePromise(key, setPromise) on the cache c and the promises ps started
\* so far: the promise returned, and the cache and the promises afterwards
cachePromise(c, ps, key, setPromise) ==
    IF key \in DOMAIN c
    THEN [promise |-> c[key], cache |-> c, promises |-> ps]
    ELSE LET promise == Len(ps) + 1
         IN [promise |-> promise,
             cache |-> [k \in DOMAIN c \cup {key} |-> IF k = key THEN promise ELSE c[k]],
             promises |-> Append(ps, setPromise)]

\* use(promise): the pass goes on with a fulfilled promise, suspends on a
\* pending one, and throws the reason of a rejected one
\* a variant of use() that hands out the value of a promise that is
\* still pending
UseEager(promise, waiting) ==
    IF promise.state = "rejected" THEN "failed" ELSE "go"

Use(promise, waiting) ==
    CASE promise.state = "fulfilled" -> "go"
      [] promise.state = "pending" -> waiting
      [] promise.state = "rejected" -> "failed"

NoProps == [k |-> "none"]
NoKey == <<>>

\* a component that is not on the page
Absent ==
    [pc |-> "absent", props |-> NoProps, resolvedTheme |-> JUndef,
     initialized |-> FALSE, key |-> NoKey, engine |-> 0, render |-> 0]

\* Mermaid's first render: mounted is false and null is returned
Mermaid(props) == [Absent EXCEPT !.pc = "unmounted", !.props = props]

\* the props the components of the page are given, and the ambient themes
S_AnB == <<"A", BS, "n", "B">>
S_packetConfig == JSONstringify(JObj(<<<<S_rowHeight, JStr(<<"4", "0">>)>>>>))
S_themeConfig == JSONstringify(JObj(<<<<S_theme, JStr(S_forest)>>>>))

Charts == {S_AnB}
PropThemes == {JUndef, JStr(S_dark)}
PropConfigs == {JStr(S_packetConfig), JStr(S_themeConfig)}
PropThemeCSS == {DefaultThemeCSS}
PropsOnPage ==
    [chart : Charts, theme : PropThemes, themeCSS : PropThemeCSS, config : PropConfigs]
PageThemes == {JStr(S_light), JStr(S_dark)}

\* the locals of MermaidContent that depend on nothing but the props and the
\* ambient theme (lines 267 and 281 to 289): the resolved theme, and either
\* that buildMermaidConfig threw or the composed source and the cache key
Locals(props, systemTheme, resolvedTheme, diagramConfig) ==
    IF diagramConfig.threw
    THEN [props |-> props, systemTheme |-> systemTheme,
          resolvedTheme |-> resolvedTheme, threw |-> TRUE]
    ELSE [props |-> props, systemTheme |-> systemTheme,
          resolvedTheme |-> resolvedTheme, threw |-> FALSE,
          fullChart |-> FullChart(diagramConfig.v, props.chart),
          key |-> RenderKey(props.chart, resolvedTheme, props.config)]

Compose(props, systemTheme) ==
    Locals(props, systemTheme, ResolvedTheme(props.theme, systemTheme),
           DiagramConfig(props.config, props.theme, systemTheme, props.themeCSS))

\* the same, computed once for each props and ambient theme of the page
\* a page whose components differ in their themeCSS only
S_noMargin == <<"m", "a", "r", "g", "i", "n", ":", "0">>
StyledProps ==
    [chart : Charts, theme : {JUndef}, themeCSS : {DefaultThemeCSS, S_noMargin},
     config : {JStr(S_packetConfig)}]

Composed ==
    {Compose(props, systemTheme) :
        props \in PropsOnPage \cup StyledProps, systemTheme \in PageThemes}

\* one pass over the body of MermaidContent for the component with useId i,
\* up to its return, a suspension or a throw; self is the component before
\* the pass, local the locals composed from its props and the ambient theme
MermaidContent(i, self, local, c, ps) ==
    LET loaded == cachePromise(c, ps, EngineKey, Started(EngineKey, "import", 0, <<>>))
        atEngine == Use(loaded.promises[loaded.promise], "waitEngine")
        begun == [self EXCEPT !.resolvedTheme = local.resolvedTheme,
                              !.engine = loaded.promise,
                              !.initialized = FALSE, !.key = NoKey, !.render = 0]
    IN IF atEngine # "go"
       THEN [instance |-> [begun EXCEPT !.pc = atEngine],
             cache |-> loaded.cache, promises |-> loaded.promises]
       ELSE IF local.threw
       THEN [instance |-> [begun EXCEPT !.pc = "failed", !.initialized = TRUE],
             cache |-> loaded.cache, promises |-> loaded.promises]
       ELSE LET asked == cachePromise(loaded.cache, loaded.promises, local.key,
                                      Started(local.key, "render", i, local.fullChart))
                atRender == Use(asked.promises[asked.promise], "waitRender")
            IN [instance |-> [begun EXCEPT
                                 !.initialized = TRUE,
                                 !.key = local.key,
                                 !.render = asked.promise,
                                 !.pc = IF atRender = "go" THEN "rendered"
                                        ELSE atRender],
                cache |-> asked.cache, promises |-> asked.promises]

-----------------------------------------------------------------------------
(* Specification of the component: components are put on the page with     *)
(* their props, their effects and render passes run in any order, the      *)
(* ambient theme changes, the promises settle, components are taken off    *)
(* the page.                                                               *)

MaxMounts == 2
MaxPromises == 3

\* the places of the page a Mermaid element can be at
Ids == {1, 2}

Init ==
    /\ instances = [i \in Ids |-> Absent]
    /\ ambient \in PageThemes
    /\ cache = EmptyCache
    /\ promises = <<>>
    /\ mounts = 0
    /\ ParseIdle
    /\ ConfigIdle
    /\ RemarkIdle
    /\ BindIdle
    /\ KeyIdle

\* a Mermaid element appears on the page, at the first free place; MaxMounts
\* bounds how many do
Mount(i, props) ==
    /\ mounts < MaxMounts
    /\ instances[i].pc = "absent"
    /\ \A j \in Ids : j < i => instances[j].pc # "absent"
    /\ instances' = [instances EXCEPT ![i] = Mermaid(props)]
    /\ mounts' = mounts + 1
    /\ UNCHANGED <<ambient, cache, promises, parseVars, cfgVars, remarkVars, bindVars, keyVars>>

\* the effect of Mermaid: setMounted(true)
\* a variant of the mount effect that never sets mounted
MountEffectSkipped(i) ==
    /\ instances[i].pc = "unmounted"
    /\ UNCHANGED vars

MountEffect(i) ==
    /\ instances[i].pc = "unmounted"
    /\ instances' = [instances EXCEPT ![i].pc = "mounted"]
    /\ UNCHANGED <<ambient, cache, promises, mounts, parseVars, cfgVars, remarkVars, bindVars, keyVars>>

\* a render pass of a mounted component: React runs the body of
\* MermaidContent again after the mount effect, after a promise it waits on
\* has settled, after a theme change, or for any other reason; MaxPromises
\* bounds how many promises the passes start
RenderPass(i) ==
    /\ instances[i].pc \in {"mounted", "waitEngine", "waitRender", "rendered"}
    /\ \E local \in Composed :
          /\ local.props = instances[i].props
          /\ local.systemTheme = ambient
          /\ LET pass == MermaidContent(i, instances[i], local, cache, promises)
             IN /\ Len(pass.promises) <= MaxPromises
                /\ instances' = [instances EXCEPT ![i] = pass.instance]
                /\ cache' = pass.cache
                /\ promises' = pass.promises
    /\ UNCHANGED <<ambient, mounts, parseVars, cfgVars, remarkVars, bindVars, keyVars>>

\* the engine module loads, or a diagram is rendered
Resolve(p) ==
    /\ promises[p].state = "pending"
    /\ promises' = [promises EXCEPT ![p].state = "fulfilled"]
    /\ UNCHANGED <<instances, ambient, cache, mounts, parseVars, cfgVars, remarkVars, bindVars, keyVars>>

\* the load or the render fails
Reject(p) ==
    /\ promises[p].state = "pending"
    /\ promises' = [promises EXCEPT ![p].state = "rejected"]
    /\ UNCHANGED <<instances, ambient, cache, mounts, parseVars, cfgVars, remarkVars, bindVars, keyVars>>

\* the ambient colour mode changes
ThemeChange(t) ==
    /\ t # ambient
    /\ ambient' = t
    /\ UNCHANGED <<instances, cache, promises, mounts, parseVars, cfgVars, remarkVars, bindVars, keyVars>>

\* a variant of the teardown that drops the cache entry of the component's
\* diagram
UnmountEvicting(i) ==
    /\ instances[i].pc # "absent"
    /\ instances' = [instances EXCEPT ![i] = Absent]
    /\ cache' = [k \in {key \in DOMAIN cache :
                            instances[i].render = 0 \/ key # instances[i].key} |-> cache[k]]
    /\ UNCHANGED <<ambient, promises, mounts, parseVars, cfgVars, remarkVars, bindVars, keyVars>>

\* a component is taken off the page
Unmount(i) ==
    /\ instances[i].pc # "absent"
    /\ instances' = [instances EXCEPT ![i] = Absent]
    /\ UNCHANGED <<ambient, cache, promises, mounts, parseVars, cfgVars, remarkVars, bindVars, keyVars>>

Next ==
    \/ \E i \in Ids, props \in PropsOnPage : Mount(i, props)
    \/ \E i \in Ids : MountEffect(i)
    \/ \E i \in Ids : RenderPass(i)
    \/ \E p \in 1..Len(promises) : Resolve(p)
    \/ \E p \in 1..Len(promises) : Reject(p)
    \/ \E t \in PageThemes : ThemeChange(t)
    \/ \E i \in Ids : Unmount(i)

Spec == Init /\ [][Next]_vars

\* the same components on a page whose diagrams differ in their themeCSS
NextStyled ==
    \/ \E i \in Ids, props \in StyledProps : Mount(i, props)
    \/ \E i \in Ids : MountEffect(i)
    \/ \E i \in Ids : RenderPass(i)
    \/ \E p \in 1..Len(promises) : Resolve(p)
    \/ \E p \in 1..Len(promises) : Reject(p)
    \/ \E t \in PageThemes : ThemeChange(t)
    \/ \E i \in Ids : Unmount(i)

SpecStyled == Init /\ [][NextStyled]_vars

\* The scheduler runs a pending mount effect, and runs a pass of a
\* component whose pass would change what it shows: after its mount effect,
\* when the promise it is suspended on settles, when the theme it reads
\* changes.
FairSpec ==
    Spec /\ \A i \in Ids : WF_vars(MountEffect(i)) /\ WF_vars(RenderPass(i))

-----------------------------------------------------------------------------
(* The key of a diagram as a function of the chart, the resolved theme     *)
(* and the config string: the key is built for two requests.               *)

S_Adark == <<"A", "-">> \o S_dark
S_braces == <<"{", "}">>

KeyCharts == {<<"A">>, S_Adark}
KeyThemes == {JStr(S_dark), JStr(S_default)}
KeyConfigs == {JUndef, JStr(<<>>), JStr(S_braces), JStr(S_default \o <<"-">> \o S_braces)}

Requests == [chart : KeyCharts, resolvedTheme : KeyThemes, configStr : KeyConfigs]

InitKey ==
    /\ keyIn \in [first : Requests, second : Requests]
    /\ keyOut = NotRun
    /\ BindIdle
    /\ ParseIdle
    /\ ConfigIdle
    /\ RemarkIdle
    /\ UiIdle

\* the two passes build their keys
BuildKeys ==
    /\ keyOut = NotRun
    /\ keyOut' =
          [first |-> RenderKey(keyIn.first.chart, keyIn.first.resolvedTheme,
                               keyIn.first.configStr),
           second |-> RenderKey(keyIn.second.chart, keyIn.second.resolvedTheme,
                                keyIn.second.configStr)]
    /\ UNCHANGED <<keyIn, bindVars, parseVars, cfgVars, remarkVars, uiVars>>

NextKey == BuildKeys

SpecKey == InitKey /\ [][NextKey]_vars

-----------------------------------------------------------------------------
(* The ref of the container.  A pass that got past both use() calls        *)
(* returns the div with its ref; React attaches the ref when it commits    *)
(* the pass: on the first commit it calls the ref with the node, on a      *)
(* later commit it calls the previous ref with null and the new one with   *)
(* the node when the two are different functions, and nothing otherwise.   *)
(* The first copy of the component memoizes the ref with                   *)
(* useCallback(..., [bindFunctions]); the second writes the function       *)
(* inline, so every pass creates a new one.                                *)

Copies == {"refCallback", "inlineRef"}

\* what use() returned to a pass: the result of the render under one key;
\* the engine leaves bindFunctions undefined for a diagram with nothing to
\* bind
Results ==
    {[key |-> 1, bindFunctions |-> TRUE],
     [key |-> 2, bindFunctions |-> TRUE],
     [key |-> 3, bindFunctions |-> FALSE]}

\* the keys whose result carries a bindFunctions
Binding == {result.key : result \in {r \in Results : r.bindFunctions}}

NoRef == -1
Undefined == 0

\* the identity of the bindFunctions of a result
BindFunctions(result) == IF result.bindFunctions THEN result.key ELSE Undefined

\* a container that is not attached
Detached == [node |-> FALSE, ref |-> NoRef, bound |-> [key \in Binding |-> 0]]

\* whether the ref of a pass is another function than the committed one:
\* useCallback returns the previous function while bindFunctions is the
\* same, an inline function is new in every pass
RefChanged(c, committed, bindFunctions) ==
    IF c = "refCallback" THEN committed # bindFunctions ELSE TRUE

\* the ref called with the node: if (node) bindFunctions?.(node)
refCallback(self, result) ==
    IF result.bindFunctions
    THEN [self EXCEPT !.bound[result.key] = @ + 1]
    ELSE self

MaxCalls == 2

InitBind ==
    /\ copy \in Copies
    /\ refs = [i \in Ids |-> Detached]
    /\ KeyIdle
    /\ ParseIdle
    /\ ConfigIdle
    /\ RemarkIdle
    /\ UiIdle

\* React commits a pass of component i that returned the div for result
Commit(i, result) ==
    LET self == refs[i]
        attached == [self EXCEPT !.node = TRUE, !.ref = BindFunctions(result)]
        called == IF ~self.node \/ RefChanged(copy, self.ref, BindFunctions(result))
                  THEN refCallback(attached, result)
                  ELSE attached
    IN /\ \A key \in Binding : called.bound[key] <= MaxCalls
       /\ refs' = [refs EXCEPT ![i] = called]
       /\ UNCHANGED <<copy, keyVars, parseVars, cfgVars, remarkVars, uiVars>>

\* component i is taken off the page: React calls the ref with null, which
\* the ref ignores, and the container is gone
Detach(i) ==
    /\ refs[i].node
    /\ refs' = [refs EXCEPT ![i] = Detached]
    /\ UNCHANGED <<copy, keyVars, parseVars, cfgVars, remarkVars, uiVars>>

NextBind ==
    \/ \E i \in Ids, result \in Results : Commit(i, result)
    \/ \E i \in Ids : Detach(i)

SpecBind == InitBind /\ [][NextBind]_vars

-----------------------------------------------------------------------------
(* The meta syntax the claims speak of: tokens name, name="value",          *)
(* name='value' separated by whitespace.                                   *)

\* the position of the next whitespace at or after p, the end of the string
\* if there is none
RECURSIVE SkipToSpace(_, _)
SkipToSpace(s, p) ==
    IF p > Len(s) \/ s[p] \in SpaceChars THEN p ELSE SkipToSpace(s, p + 1)

RECURSIVE NameEnd(_, _)
NameEnd(s, p) ==
    IF p <= Len(s) /\ s[p] \in WordChars THEN NameEnd(s, p + 1) ELSE p

\* positions p..Len(s) hold no character q
NoneFrom(s, p, q) == \A i \in p..Len(s) : s[i] # q

\* the token starting at p is  name  (then whitespace or the end)
BareAt(s, p) ==
    /\ p <= Len(s) /\ s[p] \in WordChars
    /\ LET e == NameEnd(s, p) IN e > Len(s) \/ s[e] \in SpaceChars

\* the token starting at p is  name=q value q  closed at position c
\* (then whitespace or the end)
QuotedAt(s, p, c) ==
    /\ p <= Len(s) /\ s[p] \in WordChars
    /\ LET e == NameEnd(s, p)
       IN /\ e + 2 <= c /\ c <= Len(s)
          /\ s[e] = "=" /\ s[e + 1] \in {DQ, SQ} /\ s[c] = s[e + 1]
          /\ \A i \in (e + 2)..(c - 1) : s[i] # s[e + 1]
          /\ (c = Len(s) \/ s[c + 1] \in SpaceChars)

\* the token starting at p is  name=q value  with no closing q after it
UnterminatedAt(s, p) ==
    /\ p <= Len(s) /\ s[p] \in WordChars
    /\ (p = 1 \/ s[p - 1] \in SpaceChars)
    /\ LET e == NameEnd(s, p)
       IN /\ e + 1 <= Len(s)
          /\ s[e] = "=" /\ s[e + 1] \in {DQ, SQ}
          /\ NoneFrom(s, e + 2, s[e + 1])

\* the well-formed tokens of s from position p on, in order, as
\* [name, value] records; Malformed when s is not a sequence of such tokens
Malformed == <<[name |-> <<>>, value |-> JUndef]>>

RECURSIVE TokensFrom(_, _)
TokensFrom(s, p) ==
    IF p > Len(s) THEN <<>>
    ELSE IF s[p] \in SpaceChars THEN TokensFrom(s, p + 1)
    ELSE IF BareAt(s, p)
    THEN LET e == NameEnd(s, p)
             more == TokensFrom(s, e)
         IN IF more = Malformed THEN Malformed
            ELSE <<[name |-> SubSeq(s, p, e - 1), value |-> JNull]>> \o more
    ELSE IF \E c \in 1..Len(s) : QuotedAt(s, p, c)
    THEN LET c == CHOOSE c \in 1..Len(s) : QuotedAt(s, p, c)
             e == NameEnd(s, p)
             more == TokensFrom(s, c + 1)
         IN IF more = Malformed THEN Malformed
            ELSE <<[name |-> SubSeq(s, p, e - 1),
                    value |-> JStr(SubSeq(s, e + 2, c - 1))]>> \o more
    ELSE Malformed

WellFormedMeta(s) == TokensFrom(s, 1) # Malformed

\* the bag the tokens denote: one entry per distinct name, the last
\* occurrence of a name giving its value
BagOf(toks) ==
    [n \in {toks[i].name : i \in 1..Len(toks)} |->
        LET last == CHOOSE i \in 1..Len(toks) :
                        /\ toks[i].name = n
                        /\ \A j \in (i + 1)..Len(toks) : toks[j].name # n
        IN toks[last].value]

\* t occurs in s as a contiguous run
Occurs(t, s) ==
    \E i \in 0..(Len(s) - Len(t)) : SubSeq(s, i + 1, i + Len(t)) = t

\* the name of the token starting at p occurs in no other token of s
OnlyTokenNamed(s, p) ==
    LET n == SubSeq(s, p, NameEnd(s, p) - 1)
    IN \A q \in 1..Len(s) :
          (q # p /\ s[q] \in WordChars /\ (q = 1 \/ s[q - 1] \in SpaceChars))
              => SubSeq(s, q, NameEnd(s, q) - 1) # n

\* C5 (as stated): a token name=q value whose quote is never closed adds no
\* attribute for its name and stays whole in the residual string.
C5_UnterminatedTokenIgnored ==
    parseOut # NotRun =>
        \A p \in 1..Len(meta) :
            UnterminatedAt(meta, p) =>
                /\ OnlyTokenNamed(meta, p)
                       => ~ObjHas(parseOut.attributes, SubSeq(meta, p, NameEnd(meta, p) - 1))
                /\ Occurs(SubSeq(meta, p, SkipToSpace(meta, p) - 1), parseOut.rest)

-----------------------------------------------------------------------------
(* Config resolution: what the claims speak of                             *)

\* the call of buildMermaidConfig has been made
Built == cfgOut # NotRun /\ cfgOut.op = "build"

\* the config string as JSON.parse reads it; not ok when it is absent or no
\* JSON text
Input == IF cfgIn.configStr.k = "str" THEN JSONparse(cfgIn.configStr.s) ELSE Fail

\* the config string is a JSON text of an object
IsObject(in) == in.ok /\ in.v.k = "obj"

\* an attribute that carries text: name="value" with a value that is not
\* empty
HasText(v) == v.k = "str" /\ v.s # <<>>

\* the nested config of the object: what its config field parses to
NestedOf(in) ==
    IF IsObject(in) /\ HasText(ObjGet(in.v.o, S_config))
    THEN JSONparse(ObjGet(in.v.o, S_config).s)
    ELSE Fail

\* the flat attributes of a code block: every value a string or null, and no
\* nested config
IsFlat(in) ==
    /\ IsObject(in)
    /\ ~NestedOf(in).ok
    /\ \A i \in 1..Len(in.v.o) : in.v.o[i][2].k \in {"str", "null"}

\* the theme the config string supplies: the object's theme attribute, else
\* the theme of its nested config; undefined when it supplies none
AttributeTheme(in) ==
    IF ~IsObject(in) THEN JUndef
    ELSE IF HasText(ObjGet(in.v.o, S_theme)) THEN ObjGet(in.v.o, S_theme)
    ELSE LET nested == NestedOf(in)
         IN IF nested.ok /\ nested.v.k = "obj" /\ HasText(ObjGet(nested.v.o, S_theme))
            THEN ObjGet(nested.v.o, S_theme)
            ELSE JUndef

\* the ambient color mode as a diagram theme
AmbientTheme ==
    IF cfgIn.systemTheme = JStr(S_dark) THEN JStr(S_dark) ELSE JStr(S_default)

\* C3 (as stated): the theme of the diagram's effective config is the
\* explicit theme prop when there is one, else the theme the config string
\* supplies when there is one, else the ambient color mode's theme.
C3_ThemePrecedence ==
    (cfgOut # NotRun /\ cfgOut.op = "content" /\ ~cfgOut.out.threw) =>
        LET attr == AttributeTheme(Input)
        IN ObjGet(cfgOut.out.v.o, S_theme) =
               (IF cfgIn.themeOverride # JUndef THEN cfgIn.themeOverride
                ELSE IF attr # JUndef THEN attr
                ELSE AmbientTheme)

\* C4 (as stated): buildMermaidConfig returns a config for every config
\* string and every theme override; it never throws.
C4_BuildNeverThrows == Built => ~cfgOut.out.threw

\* the three families: the group's name and its recognized fields
Families ==
    {[group |-> S_packet, fields |-> {S_rowHeight, S_bitsPerRow, S_showBits}],
     [group |-> S_flowchart, fields |-> {S_nodeSpacing, S_rankSpacing, S_curve}],
     [group |-> S_sequence, fields |-> {S_mirrorActors, S_messageAlign}]}

IntegerFields == {S_rowHeight, S_bitsPerRow, S_nodeSpacing, S_rankSpacing}

BooleanFields == {S_showBits, S_mirrorActors}

DigitChars == {"0", "1", "2", "3", "4", "5", "6", "7", "8", "9"}

\* the longest run of digits a text starts with
DigitPrefix(t) ==
    LET n == CHOOSE n \in 0..Len(t) :
                 /\ \A i \in 1..n : t[i] \in DigitChars
                 /\ (n = Len(t) \/ t[n + 1] \notin DigitChars)
    IN SubSeq(t, 1, n)

\* v is the attribute text a coerced for field f: the integer its digits
\* denote (not-a-number when it starts with none), whether it is 'true', or
\* the text itself
Coerced(f, a, v) ==
    IF f \in IntegerFields
    THEN IF DigitPrefix(a.s) = <<>> THEN v = JNaN
         ELSE v.k = "num" /\ v.n >= 0 /\ NatToString(v.n) = DigitPrefix(a.s)
    ELSE IF f \in BooleanFields THEN v = JBool(a.s = S_true)
    ELSE v = a

\* the group of family F in the result out holds exactly the fields named
\* in present, each the coerced attribute of attrs; there is no group when
\* present is empty
GroupHolds(F, attrs, out, present) ==
    /\ ObjHas(out, F.group) <=> present # {}
    /\ present # {} =>
         /\ ObjGet(out, F.group).k = "obj"
         /\ ObjKeys(ObjGet(out, F.group).o) = present
         /\ \A f \in present :
                Coerced(f, ObjGet(attrs, f), ObjGet(ObjGet(out, F.group).o, f))

WithoutConfigField(o) ==
    JStr(JSONstringify(JObj(SelectSeq(o, LAMBDA e : e[1] # S_config))))

-----------------------------------------------------------------------------
(* The rewriter: what the claims speak of                                  *)

\* the places of a tree's nodes: <<i>> a child of the root, <<i, j>> a child
\* of that child
Places(t) ==
    {<<i>> : i \in 1..Len(t.children)}
    \cup UNION {{<<i, j>> : j \in 1..(IF "children" \in DOMAIN t.children[i]
                                      THEN Len(t.children[i].children)
                                      ELSE 0)} :
                   i \in 1..Len(t.children)}

NodeAt(t, pl) ==
    IF Len(pl) = 1 THEN t.children[pl[1]] ELSE t.children[pl[1]].children[pl[2]]

\* the language the transformer targets
TargetLang == IF options.lang = JUndef THEN S_mermaid ELSE options.lang.s

\* a code node with the target language and a body that is not empty
IsDiagramBlock(n) ==
    n.type = "code" /\ n.lang = JStr(TargetLang) /\ n.value # <<>>

\* a node's own fields, and how many children it has
Own(n) ==
    [fields |-> [f \in DOMAIN n \ {"children"} |-> n[f]],
     arity |-> IF "children" \in DOMAIN n THEN Len(n.children) ELSE 0]

\* c is b with only leading and trailing whitespace removed
IsTrimOf(c, b) ==
    \E lo \in 1..(Len(b) + 1), hi \in 0..Len(b) :
        /\ c = SubSeq(b, lo, hi)
        /\ \A i \in 1..(lo - 1) : b[i] \in SpaceChars
        /\ \A i \in (hi + 1)..Len(b) : b[i] \in SpaceChars
        /\ c # <<>> => (c[1] \notin SpaceChars /\ c[Len(c)] \notin SpaceChars)

\* the values of the attributes of that name a component node carries
AttributeValues(n, name) ==
    {n.attributes[i].value : i \in {j \in 1..Len(n.attributes) : n.attributes[j].name = name}}

\* C7: a pass leaves every node that is not a code node with the target
\* language and a non-empty body as it was: the same fields with the same
\* values, and as many children.
C7_OtherNodesUntouched ==
    passes >= 1 =>
        /\ Places(tree) = Places(doc)
        /\ Own(tree) = Own(doc)
        /\ \A pl \in Places(doc) :
               ~IsDiagramBlock(NodeAt(doc, pl)) => Own(NodeAt(tree, pl)) = Own(NodeAt(doc, pl))

\* C7 witness: a pass has run on a tree that holds a diagram block, which it
\* rewrote, and a code block that is none (another language, or an empty
\* body).
C7_Witness ==
    /\ passes >= 1
    /\ \E pl \in Places(doc) :
          IsDiagramBlock(NodeAt(doc, pl)) /\ NodeAt(tree, pl) # NodeAt(doc, pl)
    /\ \E pl \in Places(doc) :
          NodeAt(doc, pl).type = "code" /\ ~IsDiagramBlock(NodeAt(doc, pl))

\* C8: every code node with the target language and a non-empty body has
\* become a Mermaid component node whose chart is the body trimmed, and
\* which carries a config attribute exactly when the bag parsed from its
\* meta has an entry, the config being a JSON text of that bag.
C8_DiagramBlockRewritten ==
    passes >= 1 =>
        \A pl \in Places(doc) :
            IsDiagramBlock(NodeAt(doc, pl)) =>
                LET old == NodeAt(doc, pl)
                    new == NodeAt(tree, pl)
                    bag == parseCodeBlockAttributes(
                               IF old.meta = JNull THEN <<>> ELSE old.meta.s).attributes
                    charts == AttributeValues(new, S_chart)
                    configs == AttributeValues(new, S_config)
                IN /\ new.type = "mdxJsxFlowElement"
                   /\ new.name = S_Mermaid
                   /\ Cardinality(charts) = 1
                   /\ \A c \in charts : IsTrimOf(c, old.value)
                   /\ Len(new.attributes) = (IF bag = <<>> THEN 1 ELSE 2)
                   /\ configs # {} <=> bag # <<>>
                   /\ \A c \in configs :
                          /\ JSONparse(c).ok
                          /\ JSONparse(c).v.k = "obj"
                          /\ ObjMap(JSONparse(c).v.o) = ObjMap(bag)

\* C8 witness: a diagram block with attributes in its meta and whitespace
\* around its body has been rewritten, and so has one whose meta yields no
\* attribute.
C8_Witness ==
    /\ passes >= 1
    /\ \E pl \in Places(doc) :
          /\ IsDiagramBlock(NodeAt(doc, pl))
          /\ NodeAt(doc, pl).meta # JNull
          /\ AttributeValues(NodeAt(tree, pl), S_config) # {}
          /\ AttributeValues(NodeAt(tree, pl), S_chart) # {NodeAt(doc, pl).value}
    /\ \E pl \in Places(doc) :
          /\ IsDiagramBlock(NodeAt(doc, pl))
          /\ NodeAt(doc, pl).meta # JNull
          /\ AttributeValues(NodeAt(tree, pl), S_config) = {}

-----------------------------------------------------------------------------
(* The cache: what the claims speak of                                     *)

Promises == 1..Len(promises)

\* the components that asked for the engine, and for a render, in their
\* last pass
AskedEngine == {i \in Ids : instances[i].engine # 0}
AskedRender == {i \in Ids : instances[i].render # 0}

\* the promises started for a key
StartedFor(key) == {p \in Promises : promises[p].key = key}

\* C1: for every key, the engine key and every diagram key, at most one
\* computation is ever started, it is the import for the engine key and a
\* render call for a diagram key, and every component that asks for the key
\* receives that one promise, the one the cache holds, also while it is
\* pending
C1_OneComputationPerKey ==
    /\ \A p, q \in Promises : promises[p].key = promises[q].key => p = q
    /\ \A p \in Promises :
          /\ promises[p].key \in DOMAIN cache
          /\ cache[promises[p].key] = p
          /\ promises[p].call = (IF promises[p].key = EngineKey THEN "import" ELSE "render")
    /\ \A i \in AskedEngine :
          /\ instances[i].engine \in StartedFor(EngineKey)
          /\ instances[i].engine = cache[EngineKey]
    /\ \A i \in AskedRender :
          /\ instances[i].render \in StartedFor(instances[i].key)
          /\ instances[i].render = cache[instances[i].key]
    /\ \A i, j \in AskedRender :
          instances[i].key = instances[j].key => instances[i].render = instances[j].render

\* C1 witness: two components wait on the same pending render, started
\* once, after both received the same engine promise
C1_Witness ==
    \E i, j \in AskedRender :
        /\ i # j
        /\ instances[i].pc = "waitRender" /\ instances[j].pc = "waitRender"
        /\ instances[i].key = instances[j].key
        /\ instances[i].render = instances[j].render
        /\ promises[instances[i].render].state = "pending"
        /\ instances[i].engine = instances[j].engine
        /\ Cardinality(StartedFor(instances[i].key)) = 1

\* two components whose last render requests had the same chart and the
\* same resolved theme and two different config strings
DifferInConfig(i, j) ==
    /\ i # j
    /\ instances[i].props.chart = instances[j].props.chart
    /\ instances[i].resolvedTheme = instances[j].resolvedTheme
    /\ instances[i].props.config.k = "str" /\ instances[j].props.config.k = "str"
    /\ instances[i].props.config # instances[j].props.config

\* C2: two render requests with the same chart and the same resolved theme
\* and different config strings have two keys and two cache entries that hold
\* two promises, and two render calls were made for them
C2_ConfigSeparatesEntries ==
    \A i, j \in AskedRender :
        DifferInConfig(i, j) =>
            /\ instances[i].key # instances[j].key
            /\ {instances[i].key, instances[j].key} \subseteq DOMAIN cache
            /\ cache[instances[i].key] # cache[instances[j].key]
            /\ instances[i].render # instances[j].render
            /\ Cardinality({p \in Promises :
                              /\ promises[p].call = "render"
                              /\ promises[p].key \in {instances[i].key, instances[j].key}}) = 2

\* C2 witness: two such requests, the second component's issued first, each
\* of which started its own render
C2_Witness ==
    \E i, j \in AskedRender :
        /\ DifferInConfig(i, j)
        /\ i < j
        /\ instances[j].render < instances[i].render
        /\ promises[instances[i].render].id = i
        /\ promises[instances[j].render].id = j

\* C19: after a pass no node of the tree is a code node the transformer
\* targets, every code node the document held that it targets is what one
\* call of the visitor makes of it, at the place it was, and a pass on the
\* output of a pass leaves the tree as it is
C19_SecondPassChangesNothing ==
    [][/\ passes >= 1 => tree' = tree
       /\ passes' >= 1 =>
             /\ Places(tree') = Places(doc)
             /\ \A pl \in Places(tree') : ~IsDiagramBlock(NodeAt(tree', pl))
             /\ \A pl \in Places(doc) :
                   IsDiagramBlock(NodeAt(doc, pl)) =>
                       /\ NodeAt(tree', pl).type # "code"
                       /\ NodeAt(tree', pl) = Visitor(NodeAt(doc, pl), TargetLang)]_vars

\* C19 witness: the transformer has run twice on a tree that held a
\* diagram block at the top and one inside a block quote
C19_Witness ==
    /\ passes = 2
    /\ \E pl, inner \in Places(doc) :
          /\ Len(pl) = 1
          /\ Len(inner) = 2
          /\ IsDiagramBlock(NodeAt(doc, pl))
          /\ IsDiagramBlock(NodeAt(doc, inner))
          /\ NodeAt(tree, pl).type = "mdxJsxFlowElement"
          /\ NodeAt(tree, inner).type = "mdxJsxFlowElement"

\* the promises that have been rejected
Rejected == {p \in Promises : promises[p].state = "rejected"}

\* C11: once the load or the render for a key has been rejected, the cache
\* keeps that promise for the key, nothing is started again for the key,
\* and a component that asked for the key is waiting on it or has failed
\* with it: after a rejected load it called neither initialize nor render,
\* after a rejected render it shows no markup
C11_NoRetryAfterRejection ==
    \A p \in Rejected :
        /\ promises[p].key \in DOMAIN cache
        /\ cache[promises[p].key] = p
        /\ StartedFor(promises[p].key) = {p}
        /\ \A i \in AskedEngine :
              instances[i].engine = p =>
                  /\ instances[i].pc \in {"waitEngine", "failed"}
                  /\ ~instances[i].initialized
                  /\ instances[i].render = 0
        /\ \A i \in AskedRender :
              instances[i].key = promises[p].key =>
                  /\ instances[i].render = p
                  /\ instances[i].pc \in {"waitRender", "failed"}

\* C11 witness: a component has failed with the rejected render another
\* component started, and no second render was started for the key
C11_Witness ==
    \E p \in Rejected, i \in AskedRender :
        /\ promises[p].call = "render"
        /\ instances[i].render = p
        /\ instances[i].pc = "failed"
        /\ promises[p].id # i
        /\ Cardinality(StartedFor(promises[p].key)) = 1

\* C12: no step removes or replaces an entry of the cache or a started
\* promise's key, a step writes a key only together with the promise it
\* starts for it, and a component whose pass asks for a key the cache
\* holds receives the entry and starts nothing
C12_CacheOnlyGrows ==
    [][/\ \A key \in DOMAIN cache : key \in DOMAIN cache' /\ cache'[key] = cache[key]
       /\ Len(promises') >= Len(promises)
       /\ \A p \in Promises : promises'[p].key = promises[p].key
       /\ \A key \in DOMAIN cache' \ DOMAIN cache :
             /\ cache'[key] > Len(promises)
             /\ promises'[cache'[key]].key = key
       /\ \A i \in Ids :
             (instances'[i].render # 0 /\ instances'[i].key \in DOMAIN cache) =>
                 /\ instances'[i].render = cache[instances'[i].key]
                 /\ instances'[i].render # instances[i].render => promises' = promises]_vars

\* C12 witness: the component that started a render was taken off the page
\* while the render was pending, and a component put on the page afterwards
\* waits on the same entry
C12_Witness ==
    \E i \in AskedRender :
        LET p == instances[i].render
        IN /\ promises[p].state = "pending"
           /\ promises[p].id # i
           /\ instances[promises[p].id].pc = "absent"
           /\ cache[instances[i].key] = p

\* the components on the page that take their theme from the ambient theme
FollowsAmbient == {i \in Ids : instances[i].pc # "absent" /\ instances[i].props.theme = JUndef}

\* the theme a component without a theme prop resolves under the ambient
\* theme t
ThemeUnder(t) == IF t = JStr(S_dark) THEN JStr(S_dark) ELSE JStr(S_default)

\* the key of the diagram of component i under the ambient theme
KeyUnderAmbient(i) ==
    RenderKey(instances[i].props.chart, ThemeUnder(ambient), instances[i].props.config)

\* the render of component i's diagram under the ambient theme cannot be
\* started within the bound on the promises
BeyondBound(i) == Len(promises) = MaxPromises /\ KeyUnderAmbient(i) \notin DOMAIN cache

\* component i shows the markup rendered for the ambient theme
ShowsAmbient(i) ==
    /\ instances[i].pc = "rendered"
    /\ instances[i].resolvedTheme = ThemeUnder(ambient)
    /\ instances[i].key = KeyUnderAmbient(i)
    /\ promises[instances[i].render].state = "fulfilled"
    /\ promises[instances[i].render].key = KeyUnderAmbient(i)

\* C13: a pass of a component without a theme prop asks for the render
\* under the theme resolved from the ambient theme of that moment; when
\* the cache holds the key, as it does after the theme changed back, the
\* pass takes the cached promise and no render is started; and a
\* component that stays on the page under an ambient theme that stays
\* comes to show the markup rendered for it, unless the engine load or
\* that render is pending or rejected
C13_ThemeChangeRendersOrReuses ==
    /\ [][\A i \in Ids :
            (i \in FollowsAmbient /\ instances'[i].pc # "absent"
                /\ instances'[i].render # 0
                /\ instances'[i].render # instances[i].render) =>
                /\ instances'[i].resolvedTheme = ThemeUnder(ambient)
                /\ instances'[i].key = KeyUnderAmbient(i)
                /\ promises'[instances'[i].render].key = KeyUnderAmbient(i)
                /\ promises'[instances'[i].render].call = "render"
                /\ KeyUnderAmbient(i) \in DOMAIN cache =>
                      /\ promises' = promises
                      /\ instances'[i].render = cache[KeyUnderAmbient(i)]]_vars
    /\ \A i \in Ids, t \in PageThemes :
          (i \in FollowsAmbient /\ instances[i].pc # "failed" /\ ambient = t)
             ~> \/ i \notin FollowsAmbient
                \/ ambient # t
                \/ ShowsAmbient(i)
                \/ instances[i].pc = "failed"
                \/ \E p \in Promises :
                      /\ promises[p].key \in {EngineKey, KeyUnderAmbient(i)}
                      /\ promises[p].state # "fulfilled"
                \/ BeyondBound(i)

\* C13 witness: the ambient theme changed and changed back, and the
\* component shows the markup of the render it started first, while the
\* render it started for the other theme is the last one started
C13_Witness ==
    \E i \in FollowsAmbient :
        /\ ShowsAmbient(i)
        /\ promises[instances[i].render].id = i
        /\ \E q \in Promises :
              /\ q > instances[i].render
              /\ q = Len(promises)
              /\ promises[q].id = i
              /\ promises[q].call = "render"
              /\ promises[q].key # instances[i].key

\* the position of a component on the path unmounted, waiting for the
\* engine, waiting for the render, rendered; a component whose mount effect
\* ran and whose content has not run yet counts as waiting for the engine
OnPath == {"unmounted", "mounted", "waitEngine", "waitRender", "rendered"}
Stage(pc) ==
    CASE pc = "unmounted" -> 0
      [] pc \in {"mounted", "waitEngine"} -> 1
      [] pc = "waitRender" -> 2
      [] pc = "rendered" -> 3

\* a step takes component i back on the path
MovesBack(i) ==
    /\ instances[i].pc \in OnPath
    /\ instances'[i].pc \in OnPath
    /\ Stage(instances'[i].pc) < Stage(instances[i].pc)

\* what a component has done at each position: nothing before its mount
\* effect and first pass; initialize and render only with the engine
\* loaded, and a render only after initialize in the pass; markup only from
\* a fulfilled render of its key
DoneInOrder(i) ==
    /\ instances[i].pc \in {"absent", "unmounted", "mounted"} =>
          /\ instances[i].engine = 0
          /\ ~instances[i].initialized
          /\ instances[i].render = 0
    /\ instances[i].initialized =>
          /\ instances[i].engine # 0
          /\ promises[instances[i].engine].key = EngineKey
          /\ promises[instances[i].engine].state = "fulfilled"
    /\ instances[i].render # 0 => instances[i].initialized
    /\ instances[i].pc = "waitEngine" =>
          /\ ~instances[i].initialized
          /\ instances[i].render = 0
    /\ instances[i].pc = "waitRender" =>
          /\ instances[i].render # 0
          /\ promises[instances[i].render].key = instances[i].key
    /\ instances[i].pc = "rendered" =>
          /\ instances[i].render # 0
          /\ promises[instances[i].render].key = instances[i].key
          /\ promises[instances[i].render].state = "fulfilled"

\* a step in which component i starts a render: the promise is new, the
\* component initialized the engine in that pass, and the engine had
\* loaded before the step
StartsRender(i) ==
    /\ Len(promises') > Len(promises)
    /\ promises'[Len(promises')].call = "render"
    /\ promises'[Len(promises')].id = i
    /\ instances'[i].render = Len(promises')

KeyWanted(i) ==
    RenderKey(instances[i].props.chart,
              IF instances[i].props.theme = JUndef THEN ThemeUnder(ambient)
              ELSE instances[i].props.theme,
              instances[i].props.config)

\* the engine load or the render component i needs is pending or rejected
Unresolved(i) ==
    \E p \in Promises :
        /\ promises[p].key \in {EngineKey, KeyWanted(i)}
        /\ promises[p].state # "fulfilled"

\* component i shows the fulfilled render of the key it needs
Rendered(i) ==
    /\ instances[i].pc = "rendered"
    /\ instances[i].key = KeyWanted(i)
    /\ promises[instances[i].render].state = "fulfilled"

\* component i is suspended on the render of the key it needs, which is
\* pending
WaitsOnPending(i) ==
    /\ instances[i].pc = "waitRender"
    /\ instances[i].key = KeyWanted(i)
    /\ promises[instances[i].render].state = "pending"

\* C16: with the mount effects and the passes scheduled fairly, every
\* component comes to show the render of its key in the rendered state,
\* unless it is taken off the page, or the engine load or that render is
\* pending or rejected; and a component suspended on the pending render of
\* the key it needs stays as it is in every step that leaves the render
\* pending, the ambient theme unchanged and the component on the page:
\* nothing times out and nothing cancels
C16_RenderedWhenResolved ==
    /\ \A i \in Ids :
          (instances[i].pc \notin {"absent", "failed"})
             ~> \/ instances[i].pc \in {"absent", "failed"}
                \/ Rendered(i)
                \/ Unresolved(i)
                \/ Len(promises) = MaxPromises /\ KeyWanted(i) \notin DOMAIN cache
    /\ [][\A i \in Ids :
            (WaitsOnPending(i) /\ ambient' = ambient
                /\ instances'[i].pc # "absent"
                /\ promises'[instances[i].render].state = "pending") =>
                /\ instances'[i].pc = "waitRender"
                /\ instances'[i].render = instances[i].render]_vars

\* C16 witness: a component with a theme prop shows its render, the engine
\* load and the render having resolved, while the other component is
\* still suspended on a render that is pending
C16_Witness ==
    \E i, j \in Ids :
        /\ instances[i].pc = "rendered"
        /\ instances[i].props.theme # JUndef
        /\ Rendered(i)
        /\ promises[instances[i].engine].state = "fulfilled"
        /\ instances[j].pc = "waitRender"
        /\ WaitsOnPending(j)

\* the source composed for component i in its last pass: the init
\* directive with its own config, theme and themeCSS, then its own chart
OwnSource(i) ==
    {local.fullChart : local \in {l \in Composed :
        /\ l.props = instances[i].props
        /\ l.resolvedTheme = instances[i].resolvedTheme}}

\* C18 as stated: a component in the rendered state shows the markup of a
\* render whose source is the one composed from the component's own
\* props, its own themeCSS included
C18_OwnSourceRendered ==
    \A i \in Ids :
        instances[i].pc = "rendered" =>
            promises[instances[i].render].fullChart \in OwnSource(i)

-----------------------------------------------------------------------------
(* The key of a diagram                                                    *)

\* C17 as stated: two requests that differ in the chart, in the resolved
\* theme or in the config string get different keys, and the key of a
\* request is never the key of the engine
C17_KeyIdentifiesTriple ==
    keyOut # NotRun =>
        /\ keyIn.first # keyIn.second => keyOut.first # keyOut.second
        /\ keyOut.first # EngineKey
        /\ keyOut.second # EngineKey

-----------------------------------------------------------------------------
(* The ref of the container                                                *)

\* C15 as stated: whatever passes were committed, with the same result
\* again, with the result of another theme and of the earlier theme
\* again, on this component and on the other, the bindFunctions of a
\* result a component has shown was called with the component's container
\* once, and only with the container attached
C15_BoundExactlyOnce ==
    \A i \in Ids :
        /\ \A key \in Binding : refs[i].bound[key] <= 1
        /\ \A key \in Binding : refs[i].bound[key] > 0 => refs[i].node
        /\ (refs[i].node /\ refs[i].ref \in Binding) => refs[i].bound[refs[i].ref] >= 1

====
